---- MODULE Spec2Model ----
(***************************************************************************)
(* A model of philoyore: the streaming tokenizers (io.py, philIO.py), the  *)
(* string source adapter FilelikeString, and the feature pipeline          *)
(* (features.py, feats/gen.py, util.py).                                   *)
(*                                                                         *)
(* Strings are sequences of one-character strings.  A word is a non-empty  *)
(* sequence of non-whitespace characters; an n-gram is a sequence of words.*)
(***************************************************************************)
EXTENDS Integers, Sequences, FiniteSets, TLC

\* ------------------------------------------------------------------------
\* Bounds of the model
\* ------------------------------------------------------------------------

\* Longest input string fed to the tokenizers.
MaxLen == 4

\* Largest n-gram size requested (the smallest is -1).
MaxN == 3

\* io.py:48 / philIO.py:47, the size asked of every read.
buffer_size == 1024

Min(a, b) == IF a < b THEN a ELSE b

Max(a, b) == IF a < b THEN b ELSE a

Letters == {"a", "b"}

White == {" "}

Chars == Letters \cup White

Strings == UNION {[1..k -> Chars] : k \in 0..MaxLen}

\* Numbers of characters a source may have ready when a read arrives.
ChunkSizes == 1..MaxLen

\* Sizes a direct caller passes to FilelikeString.read.
ReadSizes == -1..MaxLen

\* ------------------------------------------------------------------------
\* State
\* ------------------------------------------------------------------------
VARIABLES
    impl,       \* "io" or "philIO": the module whose tokenizer runs
    mode,       \* "words", "ngrams" or "read" (FilelikeString used directly)
    src,        \* FilelikeString.s, the input string
    pos,        \* FilelikeString.i, where the next read starts
    n,          \* the n of ngrams
    pc,         \* "start", "created", "running", "done", "error"
    next_buf,   \* words: the withheld partial word
    d,          \* ngrams: the window (deque d / list arr)
    out,        \* the words yielded by words(f) so far
    grams,      \* the tuples yielded by ngrams so far
    rd,         \* the last read: [k, before, res], k the size asked for
    cat         \* concatenation of everything the reads returned

ioVars == <<impl, mode, src, pos, n, pc, next_buf, d, out, grams, rd, cat>>

VARIABLES
    api,            \* "FeatureSet", "gen" (streams in) or "vectors" (vectors in)
    streams,        \* StreamSet.streams / the streams given to raw_features
    ss_total,       \* StreamSet.total, the Counter sum of the streams
    fpc,            \* "init", "built", "failed" (construction raised), "normalized"
    feature_vecs,   \* FeatureSet.feature_vecs / the vectors of feats.gen
    id_to_feature,  \* FeatureSet.id_to_feature
    feature_to_id,  \* FeatureSet.feature_to_id / the ids of raw_features
    total,          \* FeatureSet.total, None or the cached column sums
    props,          \* FeatureSet.props, None or the cached proportions
    err,            \* the exception the last call raised, or "none"
    call,           \* the last call: [op, opts]
    prev,           \* the FeatureSet's fields when the last call began
    ret             \* what the last gen.delete_features returned: [vecs, map]

featVars == <<api, streams, ss_total, fpc, feature_vecs, id_to_feature,
              feature_to_id, total, props, err, call, prev, ret>>

VARIABLES
    num_ps,         \* CondensedDistanceMatrix.n
    cdm,            \* CondensedDistanceMatrix.cdm, the condensed list
    dcall,          \* the last get on the matrix: [op, i, j]
    got,            \* what the last get returned (None when it raised)
    derr,           \* the exception the last call raised, or "none"
    dprev,          \* the get before the last one: [i, j, got]
    square          \* what squareform() returned, <<>> before it was called

distVars == <<num_ps, cdm, dcall, got, derr, dprev, square>>

VARIABLES
    names,          \* StreamSet.names, one slot per stream
    orig,           \* None, or the object clone() was called on: its fields
    metric          \* None, or the last metric call: [alg, fn, err, val]

moreVars == <<names, orig, metric>>

vars == <<ioVars, featVars, distVars, moreVars>>

\* Python's None, and a value that is not None.
None == <<>>

Some(x) == <<x>>

NoCall == [op |-> "none", opts |-> <<>>]

NoFields ==
    [feature_vecs |-> <<>>, id_to_feature |-> <<>>, feature_to_id |-> <<>>,
     total |-> None, props |-> None]

NoRet == [vecs |-> <<>>, map |-> <<>>]

NoGet == [op |-> "none", i |-> 0, j |-> 0]

NoPrevGet == [i |-> 0, j |-> 0, got |-> <<>>]

\* No call on the distance matrix yet.
DistFresh ==
    /\ dcall = NoGet
    /\ got = None
    /\ derr = "none"
    /\ dprev = NoPrevGet
    /\ square = <<>>

\* No clone and no metric call yet.
MoreFresh ==
    /\ orig = None
    /\ metric = None

\* An in-place write of value to the given attribute of the object worked
\* on: the object a clone was taken from sees it when the two still share
\* that attribute.
SharedUpdate(o, field, value) ==
    IF o = None \/ field \notin o[1].shared THEN o
    ELSE Some([o[1] EXCEPT !.now[field] = value])

\* No StreamSet, no clone and no metric call in a run.
MoreIdle ==
    /\ names = <<>>
    /\ MoreFresh

\* The distance matrix left out of a run.
DistIdle ==
    /\ num_ps = 0
    /\ cdm = <<>>
    /\ DistFresh

\* The feature pipeline before anything was built.
FeatFresh ==
    /\ fpc = "init"
    /\ feature_vecs = <<>>
    /\ id_to_feature = <<>>
    /\ feature_to_id = <<>>
    /\ total = None
    /\ props = None
    /\ err = "none"
    /\ call = NoCall
    /\ prev = NoFields
    /\ ret = NoRet

\* The feature pipeline left out of a run of the tokenizers.
FeatIdle ==
    /\ api = "none"
    /\ streams = <<>>
    /\ ss_total = <<>>
    /\ FeatFresh

\* ------------------------------------------------------------------------
\* Python string primitives
\* ------------------------------------------------------------------------

\* str.isspace on one character.
isspace(c) == c \in White

RECURSIVE SplitScan(_, _, _, _)
SplitScan(s, i, cur, acc) ==
    IF i > Len(s)
    THEN (IF cur = <<>> THEN acc ELSE Append(acc, cur))
    ELSE IF isspace(s[i])
         THEN SplitScan(s, i + 1, <<>>, IF cur = <<>> THEN acc ELSE Append(acc, cur))
         ELSE SplitScan(s, i + 1, Append(cur, s[i]), acc)

\* str.split() with no separator: the maximal runs of non-whitespace.
split(s) == SplitScan(s, 1, <<>>, <<>>)

\* Python slice s[lo:hi] for 0 <= lo, 0-based and half-open.
Slice(s, lo, hi) == SubSeq(s, lo + 1, Min(hi, Len(s)))

\* ------------------------------------------------------------------------
\* FilelikeString
\* ------------------------------------------------------------------------

\* A FilelikeString.read that forgets to clamp the position.
FLSReadUnclamped(s, i, k) ==
    IF k < 0
    THEN [res |-> Slice(s, i, Len(s)), i |-> Len(s)]
    ELSE [res |-> Slice(s, i, i + k), i |-> i + k]

\* FilelikeString.read(n): the slice returned and the new position.
FLSRead(s, i, k) ==
    IF k < 0
    THEN [res |-> Slice(s, i, Len(s)), i |-> Len(s)]
    ELSE [res |-> Slice(s, i, i + k), i |-> Min(i + k, Len(s))]

\* ------------------------------------------------------------------------
\* words
\* ------------------------------------------------------------------------

\* One pass of the while loop of words with the carry test of philIO.py,
\* which does not look at the end of input.
PhilIOWordsIter(nb, current_input) ==
    LET current_buf == nb \o current_input
        ws == split(current_buf)
    IN  IF Len(current_buf) = 0
        THEN [brk |-> TRUE, next_buf |-> nb, yielded |-> <<>>]
        ELSE IF isspace(current_buf[Len(current_buf)])
             THEN [brk |-> FALSE, next_buf |-> <<>>, yielded |-> ws]
             ELSE [brk |-> FALSE, next_buf |-> ws[Len(ws)],
                   yielded |-> SubSeq(ws, 1, Len(ws) - 1)]

\* A pass that never withholds the last word of the buffer.
IoWordsIterNoCarry(nb, current_input) ==
    LET current_buf == nb \o current_input
    IN  IF Len(current_buf) = 0
        THEN [brk |-> TRUE, next_buf |-> nb, yielded |-> <<>>]
        ELSE [brk |-> FALSE, next_buf |-> <<>>, yielded |-> split(current_buf)]

\* A pass that looks for the closing whitespace at the front of the buffer.
IoWordsIterFirstChar(nb, current_input) ==
    LET current_buf == nb \o current_input
        ws == split(current_buf)
    IN  IF Len(current_buf) = 0
        THEN [brk |-> TRUE, next_buf |-> nb, yielded |-> <<>>]
        ELSE IF isspace(current_buf[1]) \/ Len(current_input) = 0
             THEN [brk |-> FALSE, next_buf |-> <<>>, yielded |-> ws]
             ELSE [brk |-> FALSE, next_buf |-> ws[Len(ws)],
                   yielded |-> SubSeq(ws, 1, Len(ws) - 1)]

\* One pass of the while loop of io.words: the new carry, the words yielded,
\* and whether the loop was left.
IoWordsIter(nb, current_input) ==
    LET current_buf == nb \o current_input
        ws == split(current_buf)
    IN  IF Len(current_buf) = 0
        THEN [brk |-> TRUE, next_buf |-> nb, yielded |-> <<>>]
        ELSE IF isspace(current_buf[Len(current_buf)]) \/ Len(current_input) = 0
             THEN [brk |-> FALSE, next_buf |-> <<>>, yielded |-> ws]
             ELSE [brk |-> FALSE, next_buf |-> ws[Len(ws)],
                   yielded |-> SubSeq(ws, 1, Len(ws) - 1)]

WordsIter(m, nb, current_input) ==
    IF m = "io" THEN IoWordsIter(nb, current_input)
                ELSE PhilIOWordsIter(nb, current_input)

\* ------------------------------------------------------------------------
\* ngrams
\* ------------------------------------------------------------------------

\* collections.deque(maxlen = n).append(w): a full deque drops its leftmost
\* item first, and a deque of maxlen 0 keeps nothing.
DequeAppend(dq, w, maxlen) ==
    IF maxlen = 0 THEN <<>>
    ELSE IF Len(dq) = maxlen THEN Append(Tail(dq), w) ELSE Append(dq, w)

\* The body of the for loop of io.ngrams' gen_ngrams for one word.
IoNgramsWord(dq, w, k) ==
    LET d2 == DequeAppend(dq, w, k)
    IN  [d |-> d2, yielded |-> IF Len(d2) = k THEN <<d2>> ELSE <<>>]

\* The body of the for loop of philIO.ngrams for one word.
PhilIONgramsWord(arr, w, k) ==
    LET a1 == Append(arr, w)
    IN  IF Len(a1) > k
        THEN [d |-> Tail(a1), yielded |-> <<Tail(a1)>>]
        ELSE IF Len(a1) = k
             THEN [d |-> a1, yielded |-> <<a1>>]
             ELSE [d |-> a1, yielded |-> <<>>]

NgramsWord(m, dq, w, k) ==
    IF m = "io" THEN IoNgramsWord(dq, w, k) ELSE PhilIONgramsWord(dq, w, k)

\* The for loop over the words one pass of words yields.
RECURSIVE NgramsFeed(_, _, _, _, _)
NgramsFeed(m, dq, acc, ws, k) ==
    IF ws = <<>>
    THEN [d |-> dq, yielded |-> acc]
    ELSE LET r == NgramsWord(m, dq, Head(ws), k)
         IN  NgramsFeed(m, r.d, acc \o r.yielded, Tail(ws), k)

\* ------------------------------------------------------------------------
\* The tokenizer's state machine
\* ------------------------------------------------------------------------

NoRead == [k |-> 0, before |-> 0, res |-> <<>>]

Init ==
    /\ impl \in {"io", "philIO"}
    /\ mode \in {"words", "ngrams", "read"}
    /\ src \in Strings
    /\ n \in (IF mode = "ngrams" THEN -1..MaxN ELSE {0})
    /\ (mode = "read" => impl = "io")
    /\ pos = 0
    /\ pc = "start"
    /\ next_buf = <<>>
    /\ d = <<>>
    /\ out = <<>>
    /\ grams = <<>>
    /\ rd = NoRead
    /\ cat = <<>>
    /\ FeatIdle
    /\ DistIdle
    /\ MoreIdle

\* A check of n that lets n = 0 through.
BadNNegativeOnly(k) == k < 0

\* The test guarding the raise at the top of both ngrams.
BadN(k) == k <= 0

\* words(f) / ngrams(n)(f) / ngrams(f, n) is called.  io.ngrams(n) checks n
\* at once; the generator functions run no code until first driven.
Request ==
    /\ pc = "start"
    /\ mode \in {"words", "ngrams"}
    /\ pc' = IF mode = "ngrams" /\ impl = "io" /\ BadN(n) THEN "error" ELSE "created"
    /\ UNCHANGED <<impl, mode, src, pos, n, next_buf, d, out, grams, rd, cat>>
    /\ UNCHANGED <<featVars, distVars, moreVars>>

\* The consumer drives a philIO.ngrams generator made with n <= 0: the check
\* at the top of the generator body raises.
RaiseOnFirstNext ==
    /\ pc = "created"
    /\ mode = "ngrams" /\ impl = "philIO" /\ BadN(n)
    /\ pc' = "error"
    /\ UNCHANGED <<impl, mode, src, pos, n, next_buf, d, out, grams, rd, cat>>
    /\ UNCHANGED <<featVars, distVars, moreVars>>

\* One pass of the while loop of words: one read of buffer_size characters, of
\* which the source delivers the c it has ready (none at the end of the data),
\* and the words the pass yields, each fed to the n-gram loop when one
\* consumes them.
WordsStep(c) ==
    /\ pc \in {"created", "running"}
    /\ mode \in {"words", "ngrams"}
    /\ ~(mode = "ngrams" /\ BadN(n))
    /\ c <= Max(1, Len(src) - pos)
    /\ LET r  == FLSRead(src, pos, Min(buffer_size, c))
           it == WordsIter(impl, next_buf, r.res)
           ng == NgramsFeed(impl, d, <<>>, it.yielded, n)
       IN  /\ pos' = r.i
           /\ rd' = [k |-> buffer_size, before |-> pos, res |-> r.res]
           /\ cat' = cat \o r.res
           /\ next_buf' = it.next_buf
           /\ out' = out \o it.yielded
           /\ pc' = IF it.brk THEN "done" ELSE "running"
           /\ IF mode = "ngrams"
              THEN d' = ng.d /\ grams' = grams \o ng.yielded
              ELSE UNCHANGED <<d, grams>>
    /\ UNCHANGED <<impl, mode, src, n>>
    /\ UNCHANGED <<featVars, distVars, moreVars>>

\* A direct caller reads k characters from a FilelikeString.
Read(k) ==
    /\ mode = "read"
    /\ LET r == FLSRead(src, pos, k)
       IN  /\ pos' = r.i
           /\ rd' = [k |-> k, before |-> pos, res |-> r.res]
           /\ cat' = cat \o r.res
    /\ UNCHANGED <<impl, mode, src, n, pc, next_buf, d, out, grams>>
    /\ UNCHANGED <<featVars, distVars, moreVars>>

Next ==
    \/ Request
    \/ RaiseOnFirstNext
    \/ \E c \in ChunkSizes : WordsStep(c)
    \/ \E k \in ReadSizes : Read(k)

Spec == Init /\ [][Next]_vars

\* ------------------------------------------------------------------------
\* Inputs of the feature pipeline
\* ------------------------------------------------------------------------

\* Most streams in a StreamSet, most vectors in a collection.
MaxStreams == 2

\* Largest count of a token in one stream, largest value in a vector.
MaxCount == 1

Tokens == {"a", "b"}

Counts == 0..MaxCount

\* A stream: a Counter, each key present with a count that may be 0.
StreamVals == UNION {[D -> Counts] : D \in SUBSET Tokens}

StreamLists == UNION {[1..k -> StreamVals] : k \in 1..MaxStreams}

\* Vector collections given to feats.gen directly.
Matrices ==
    UNION {[1..r -> [1..w -> Counts]] : r \in 1..MaxStreams,
                                        w \in 0..Cardinality(Tokens)}

\* The tokens of the streams whose distances are taken, each stream holding
\* every one of its tokens once.
Tokens3 == {"a", "b", "c"}

PresenceStreams == UNION {[D -> {1}] : D \in (SUBSET Tokens3) \ {{}}}

PresenceLists == UNION {[1..k -> PresenceStreams] : k \in 1..MaxStreams}

\* Thresholds are rationals <<numerator, denominator>>.
OptKeys == {"minocc", "maxocc", "minfreq", "maxfreq"}

OptVals(k) ==
    CASE k = "minocc"  -> {<<2, 1>>}
      [] k = "maxocc"  -> {<<1, 1>>}
      [] k = "minfreq" -> {<<1, 2>>}
      [] k = "maxfreq" -> {<<1, 2>>, <<1, 1>>}

Opts ==
    {o \in UNION {[D -> UNION {OptVals(k) : k \in OptKeys}] : D \in SUBSET OptKeys} :
        \A k \in DOMAIN o : o[k] \in OptVals(k)}

\* Keyword arguments given to the FeatureSet constructor: at most one option.
Kwargs == {o \in Opts : Cardinality(DOMAIN o) <= 1}

\* ------------------------------------------------------------------------
\* Numbers
\* ------------------------------------------------------------------------

RECURSIVE GCD(_, _)
GCD(a, b) == IF b = 0 THEN a ELSE GCD(b, a % b)

\* float(num) / float(den) for den > 0, kept exact and in lowest terms.
Rat(num, den) == LET g == GCD(num, den) IN <<num \div g, den \div g>>

\* x <= y on rationals with positive denominators.
RatLe(x, y) == x[1] * y[2] <= y[1] * x[2]

\* A range that counts down.
Range0Reversed(k) == [i \in 1..k |-> k - i]

\* range(k)
Range0(k) == [i \in 1..k |-> i - 1]

\* ------------------------------------------------------------------------
\* collections.Counter
\* ------------------------------------------------------------------------

\* counter[t]: a missing key counts 0.
Get(c, t) == IF t \in DOMAIN c THEN c[t] ELSE 0

\* An addition that keeps only keys of its left operand.
CounterAddLeftKeys(a, b) ==
    LET keys == {t \in DOMAIN a : Get(a, t) + Get(b, t) > 0}
    IN  [t \in keys |-> Get(a, t) + Get(b, t)]

\* Counter.__add__: only the keys whose sum is positive are kept.
CounterAdd(a, b) ==
    LET keys == {t \in DOMAIN a \cup DOMAIN b : Get(a, t) + Get(b, t) > 0}
    IN  [t \in keys |-> Get(a, t) + Get(b, t)]

RECURSIVE CounterSumFrom(_, _, _)
CounterSumFrom(ss, i, acc) ==
    IF i > Len(ss) THEN acc ELSE CounterSumFrom(ss, i + 1, CounterAdd(acc, ss[i]))

\* sum(streams, collections.Counter())
CounterSum(ss) == CounterSumFrom(ss, 1, <<>>)

\* The orders in which iterating a dict with key set S may give its keys.
Orders(S) ==
    {o \in [1..Cardinality(S) -> S] :
        \A i, j \in 1..Cardinality(S) : o[i] = o[j] => i = j}

\* ------------------------------------------------------------------------
\* util.total, util.proportions
\* ------------------------------------------------------------------------

\* len(features[0])
Width(a) == Len(a[1])

RECURSIVE ColSumFrom(_, _, _)
ColSumFrom(a, j, i) ==
    IF i > Len(a) THEN 0 ELSE a[i][j] + ColSumFrom(a, j, i + 1)

\* util.total: np.array(a).sum(axis=0)
Total(a) == [j \in 1..Width(a) |-> ColSumFrom(a, j, 1)]

\* Proportions that count every vector for every column.
ProportionsCountAll(a) == [j \in 1..Width(a) |-> <<1, 1>>]

\* util.proportions: per column, the share of vectors with a nonzero value.
proportions(a) ==
    [j \in 1..Width(a) |->
        Rat(Cardinality({i \in 1..Len(a) : a[i][j] # 0}), Len(a))]

\* ------------------------------------------------------------------------
\* Index building: FeatureSet.__init__ and gen.raw_features
\* ------------------------------------------------------------------------

\* An index that gives every token the id 0.
AssignIndicesAllZero(order) ==
    [t \in {order[k] : k \in 1..Len(order)} |-> 0]

\* { v : k for k, v in enumerate(order) }: each key's place in the iteration.
assign_indices(order) ==
    [t \in {order[k] : k \in 1..Len(order)} |->
        (CHOOSE k \in 1..Len(order) : order[k] = t) - 1]

\* Some stream holds a key the index lacks: ids[key] raises KeyError.
IndexKeyError(ss, ids) ==
    \E i \in 1..Len(ss) : \E f \in DOMAIN ss[i] : f \notin DOMAIN ids

\* A zero vector of the given width with vec[ids[f]] = stream[f] for each key
\* f of the stream.
FillRow(stream, ids, width) ==
    [j \in 1..width |->
        LET fs == {f \in DOMAIN stream : ids[f] = j - 1}
        IN  IF fs = {} THEN 0 ELSE stream[CHOOSE f \in fs : TRUE]]

\* The vectors and the index built from the streams, the keys of the union
\* stream taken in the given order; err = "KeyError" when the fill raises.
BuildFeatures(ss, order) ==
    LET ids == assign_indices(order)
    IN  IF IndexKeyError(ss, ids)
        THEN [err |-> "KeyError", feature_vecs |-> <<>>, ids |-> <<>>]
        ELSE [err |-> "none",
              feature_vecs |-> [i \in 1..Len(ss) |-> FillRow(ss[i], ids, Len(order))],
              ids |-> ids]

\* ------------------------------------------------------------------------
\* Feature reduction
\* ------------------------------------------------------------------------

\* value >= opts['minocc'], value >= opts['minfreq']
KeepMin(x, thr) == RatLe(thr, x)

\* A maximum test that leaves out the bound itself.
KeepMaxStrict(x, thr) == RatLe(x, thr) /\ ~RatLe(thr, x)

\* value <= opts['maxocc'], value <= opts['maxfreq']
KeepMax(x, thr) == RatLe(x, thr)

\* v[indices] for every vector v.
TakeColumns(a, indices) ==
    [i \in 1..Len(a) |-> [k \in 1..Len(indices) |-> a[i][indices[k] + 1]]]

\* gen.delete_features(features, opts): the pair it returns.
GenDeleteFeatures(features, opts) ==
    LET indices0 == Range0(Width(features))
        sum_features == Total(features)
        proportion_features == proportions(features)
        i1 == IF "minocc" \in DOMAIN opts
              THEN SelectSeq(indices0,
                       LAMBDA i : KeepMin(<<sum_features[i + 1], 1>>, opts.minocc))
              ELSE indices0
        i2 == IF "maxocc" \in DOMAIN opts
              THEN SelectSeq(i1,
                       LAMBDA i : KeepMax(<<sum_features[i + 1], 1>>, opts.maxocc))
              ELSE i1
        i3 == IF "minfreq" \in DOMAIN opts
              THEN SelectSeq(i2,
                       LAMBDA i : KeepMin(proportion_features[i + 1], opts.minfreq))
              ELSE i2
        i4 == IF "maxfreq" \in DOMAIN opts
              THEN SelectSeq(i3,
                       LAMBDA i : KeepMax(proportion_features[i + 1], opts.maxfreq))
              ELSE i3
    IN  IF DOMAIN opts = {}
        THEN [vecs |-> features, map |-> indices0]
        ELSE [vecs |-> TakeColumns(features, i4), map |-> i4]

\* FeatureSet.find_total / find_props with force = False: the cache after it.
FindTotal(S) == IF S.total # None THEN S.total ELSE Some(Total(S.feature_vecs))

FindProps(S) == IF S.props # None THEN S.props ELSE Some(proportions(S.feature_vecs))

\* np.delete(a, list(to_delete), 1): the columns outside to_delete, in order.
NpDeleteColumns(a, to_delete) ==
    TakeColumns(a, SelectSeq(Range0(Width(a)), LAMBDA j : j \notin to_delete))

\* FeatureSet.delete_features(opts) on the fields S: the fields after it and
\* the exception it raised.  The test for maxfreq reads self.propsx, which no
\* FeatureSet has, so it raises on the first index it is tried on; the rebuild
\* of feature_to_id reads the undefined name id_to_feature, so it raises after
\* feature_vecs and id_to_feature were replaced and before clear_cache.
FsDeleteFeatures(S, opts) ==
    LET initial_length == Width(S.feature_vecs)
        indices0 == Range0(initial_length)
        tot == IF {"minocc", "maxocc"} \cap DOMAIN opts # {} THEN FindTotal(S)
                                                            ELSE S.total
        prp == IF {"minfreq", "maxfreq"} \cap DOMAIN opts # {} THEN FindProps(S)
                                                              ELSE S.props
        S1 == [S EXCEPT !.total = tot, !.props = prp]
        i1 == IF "minocc" \in DOMAIN opts
              THEN SelectSeq(indices0,
                       LAMBDA i : KeepMin(<<tot[1][i + 1], 1>>, opts.minocc))
              ELSE indices0
        i2 == IF "maxocc" \in DOMAIN opts
              THEN SelectSeq(i1,
                       LAMBDA i : KeepMax(<<tot[1][i + 1], 1>>, opts.maxocc))
              ELSE i1
        i3 == IF "minfreq" \in DOMAIN opts
              THEN SelectSeq(i2,
                       LAMBDA i : KeepMin(prp[1][i + 1], opts.minfreq))
              ELSE i2
        to_delete == {j \in 0..(initial_length - 1) :
                         \A k \in 1..Len(i3) : i3[k] # j}
    IN  IF DOMAIN opts = {}
        THEN [S EXCEPT !.err = "none"]
        ELSE IF "maxfreq" \in DOMAIN opts /\ i3 # <<>>
        THEN [S1 EXCEPT !.err = "AttributeError"]
        ELSE IF Len(i3) = initial_length
        THEN [S1 EXCEPT !.err = "none"]
        ELSE [S1 EXCEPT !.feature_vecs = NpDeleteColumns(S.feature_vecs, to_delete),
                        !.id_to_feature = [k \in 1..Len(i3) |-> S.id_to_feature[i3[k] + 1]],
                        !.err = "NameError"]

\* ------------------------------------------------------------------------
\* Normalization
\* ------------------------------------------------------------------------

\* The strategy names given to FeatureSet.normalize; "bogus" is a name the
\* method does not know.
Methods == {"simple", "tf-idf", "tf-idf-log2", "tf-idf-nolog", "none", "bogus"}

\* Floating-point values as exact rationals <<numerator, denominator>>, with
\* the two values numpy gives for a division by zero.
NaN == <<0, 0>>

Inf == <<1, 0>>

IsFinite(x) == x[2] # 0

\* A division that rounds down to a whole number.
FDivFloor(x, y) ==
    IF ~IsFinite(x) \/ ~IsFinite(y) THEN NaN
    ELSE IF y[1] = 0 THEN (IF x[1] = 0 THEN NaN ELSE Inf)
    ELSE <<(x[1] * y[2]) \div (x[2] * y[1]), 1>>

\* x / y on numpy floats, x and y not negative: x / 0 is inf, 0 / 0 is nan,
\* nothing is raised.
FDiv(x, y) ==
    IF ~IsFinite(x) \/ ~IsFinite(y) THEN NaN
    ELSE IF y[1] = 0 THEN (IF x[1] = 0 THEN NaN ELSE Inf)
    ELSE Rat(x[1] * y[2], x[2] * y[1])

\* x * y on numpy floats, x and y not negative: 0 * inf is nan.
FMul(x, y) ==
    IF x = NaN \/ y = NaN THEN NaN
    ELSE IF ~IsFinite(x) THEN (IF y[1] = 0 THEN NaN ELSE Inf)
    ELSE IF ~IsFinite(y) THEN (IF x[1] = 0 THEN NaN ELSE Inf)
    ELSE Rat(x[1] * y[1], x[2] * y[2])

\* features[i] /= total for every vector.
DivideRows(a, tot) ==
    [i \in 1..Len(a) |-> [j \in 1..Len(a[i]) |-> FDiv(<<a[i][j], 1>>, <<tot[j], 1>>)]]

\* feature_vecs[i] *= idf for every vector, idf = 1.0 / props.
ScaleRows(a, prp) ==
    [i \in 1..Len(a) |->
        [j \in 1..Len(a[i]) |-> FMul(<<a[i][j], 1>>, FDiv(<<1, 1>>, prp[j]))]]

\* feature_vecs[i] *= idf for every vector, idf = np.log(1.0 / props): each
\* value is kept as the factor and the argument of the logarithm.
ScaleRowsLog(a, prp) ==
    [i \in 1..Len(a) |->
        [j \in 1..Len(a[i]) |->
            [times |-> <<a[i][j], 1>>, ln |-> FDiv(<<1, 1>>, prp[j])]]]

\* x + y on numpy floats, x and y not negative.
FAdd(x, y) ==
    IF x = NaN \/ y = NaN THEN NaN
    ELSE IF ~IsFinite(x) \/ ~IsFinite(y) THEN Inf
    ELSE Rat(x[1] * y[2] + y[1] * x[2], x[2] * y[2])

RECURSIVE FColSumFrom(_, _, _)
FColSumFrom(a, j, i) ==
    IF i > Len(a) THEN <<0, 1>> ELSE FAdd(a[i][j], FColSumFrom(a, j, i + 1))

\* Totals that count the vectors instead of summing them.
TotalFCountRows(a) == [j \in 1..Width(a) |-> <<Len(a), 1>>]

\* util.total on vectors that hold fractions (vectors normalized before).
TotalF(a) == [j \in 1..Width(a) |-> FColSumFrom(a, j, 1)]

\* features[i] /= total for every vector, on vectors that hold fractions.
DivideRowsF(a, tot) ==
    [i \in 1..Len(a) |-> [j \in 1..Len(a[i]) |-> FDiv(a[i][j], tot[j])]]

\* gen.normalize(features): the vectors after it; it raises nothing.
GenNormalizeVecs(features) == DivideRows(features, Total(features))

\* An unknown strategy name that goes unnoticed.
IgnoreUnknownMethod(S) == [S EXCEPT !.err = "none"]

\* raise RuntimeError, 'Unknown normalization method ' + method
RaiseUnknownMethod(S) == [S EXCEPT !.err = "RuntimeError"]

\* FeatureSet.normalize(method) on the fields S: the fields after it and the
\* exception it raised.
FsNormalizeFields(S, method) ==
    IF method = "simple"
    THEN [S EXCEPT !.feature_vecs = DivideRows(S.feature_vecs, FindTotal(S)[1]),
                   !.total = None, !.props = None, !.err = "none"]
    ELSE IF method = "tf-idf-nolog"
    THEN [S EXCEPT !.feature_vecs = ScaleRows(S.feature_vecs, FindProps(S)[1]),
                   !.total = None, !.props = None, !.err = "none"]
    ELSE IF method \in {"tf-idf", "tf-idf-log2"}
    THEN [S EXCEPT !.feature_vecs = ScaleRowsLog(S.feature_vecs, FindProps(S)[1]),
                   !.total = None, !.props = None, !.err = "none"]
    ELSE IF method = "none"
    THEN [S EXCEPT !.err = "none"]
    ELSE RaiseUnknownMethod(S)

\* ------------------------------------------------------------------------
\* The feature pipeline's state machine
\* ------------------------------------------------------------------------

\* The tokenizers left out of a run of the feature pipeline.
IoIdle ==
    /\ impl = "none"
    /\ mode = "none"
    /\ src = <<>>
    /\ pos = 0
    /\ n = 0
    /\ pc = "idle"
    /\ next_buf = <<>>
    /\ d = <<>>
    /\ out = <<>>
    /\ grams = <<>>
    /\ rd = NoRead
    /\ cat = <<>>

\* The fields of the FeatureSet as one record.
Fields ==
    [feature_vecs |-> feature_vecs, id_to_feature |-> id_to_feature,
     feature_to_id |-> feature_to_id, total |-> total, props |-> props]

\* A StreamSet built from a non-empty list of streams (its total is their
\* Counter sum), a list of streams about to be given to raw_features, or a
\* non-empty vector collection about to be given to gen.delete_features.
InitFeat ==
    /\ IoIdle
    /\ DistIdle
    /\ MoreIdle
    /\ api \in {"FeatureSet", "gen", "vectors"}
    /\ IF api = "vectors"
       THEN /\ streams = <<>>
            /\ ss_total = <<>>
            /\ feature_vecs \in Matrices
            /\ fpc = "built"
       ELSE /\ streams \in IF api = "gen" THEN StreamLists \cup {<<>>} ELSE StreamLists
            /\ ss_total = CounterSum(streams)
            /\ feature_vecs = <<>>
            /\ fpc = "init"
    /\ id_to_feature = <<>>
    /\ feature_to_id = <<>>
    /\ total = None
    /\ props = None
    /\ err = "none"
    /\ call = NoCall
    /\ prev = NoFields
    /\ ret = NoRet

\* FeatureSet(corpus, **kwargs): the index over the keys of corpus.total in
\* the order the dict gives them, the vectors filled from the streams, the
\* cache cleared, then process(kwargs), which hands the keyword arguments to
\* delete_features as its options and normalizes with 'none' (no change).  An
\* exception in any step leaves the caller without a FeatureSet.
NewFeatureSet ==
    /\ api = "FeatureSet" /\ fpc = "init"
    /\ \E order \in Orders(DOMAIN ss_total) : \E kwargs \in Kwargs :
         LET b == BuildFeatures(streams, order)
             S == [feature_vecs |-> b.feature_vecs, id_to_feature |-> order,
                   feature_to_id |-> b.ids, total |-> None, props |-> None,
                   err |-> "none"]
             P == FsDeleteFeatures(S, kwargs)
             e == IF b.err # "none" THEN b.err ELSE P.err
         IN  /\ IF e # "none"
                THEN /\ fpc' = "failed"
                     /\ err' = e
                     /\ UNCHANGED <<feature_vecs, id_to_feature, feature_to_id,
                                    total, props>>
                ELSE /\ fpc' = "built"
                     /\ err' = "none"
                     /\ feature_vecs' = P.feature_vecs
                     /\ id_to_feature' = P.id_to_feature
                     /\ feature_to_id' = P.feature_to_id
                     /\ total' = P.total
                     /\ props' = P.props
             /\ call' = [op |-> "FeatureSet", opts |-> kwargs]
    /\ prev' = Fields
    /\ UNCHANGED <<api, streams, ss_total, ret>>
    /\ UNCHANGED <<ioVars, distVars, moreVars>>

\* gen.raw_features(streams)
RawFeatures ==
    /\ api = "gen" /\ fpc = "init"
    /\ \E order \in Orders(DOMAIN CounterSum(streams)) :
         LET b == BuildFeatures(streams, order)
         IN  /\ fpc' = IF b.err = "none" THEN "built" ELSE "failed"
             /\ err' = b.err
             /\ feature_vecs' = b.feature_vecs
             /\ feature_to_id' = b.ids
    /\ call' = [op |-> "raw_features", opts |-> <<>>]
    /\ UNCHANGED <<api, streams, ss_total, id_to_feature, total, props, prev, ret>>
    /\ UNCHANGED <<ioVars, distVars, moreVars>>

\* gen.delete_features(features, opts) on a vector collection.
GenDelete ==
    /\ api = "vectors" /\ fpc = "built"
    /\ call.op # "gen.delete_features"
    /\ \E opts \in Opts :
         /\ ret' = GenDeleteFeatures(feature_vecs, opts)
         /\ call' = [op |-> "gen.delete_features", opts |-> opts]
    /\ err' = "none"
    /\ UNCHANGED <<api, streams, ss_total, fpc, feature_vecs, id_to_feature,
                   feature_to_id, total, props, prev>>
    /\ UNCHANGED <<ioVars, distVars, moreVars>>

\* FeatureSet.delete_features(opts), called once on a FeatureSet just built.
FsDelete ==
    /\ api = "FeatureSet" /\ fpc = "built"
    /\ call.op = "FeatureSet"
    /\ \E opts \in Opts :
         LET S == [feature_vecs |-> feature_vecs, id_to_feature |-> id_to_feature,
                   feature_to_id |-> feature_to_id, total |-> total,
                   props |-> props, err |-> "none"]
             R == FsDeleteFeatures(S, opts)
         IN  /\ feature_vecs' = R.feature_vecs
             /\ id_to_feature' = R.id_to_feature
             /\ feature_to_id' = R.feature_to_id
             /\ total' = R.total
             /\ props' = R.props
             /\ err' = R.err
             /\ call' = [op |-> "delete_features", opts |-> opts]
    /\ prev' = Fields
    /\ UNCHANGED <<api, streams, ss_total, fpc, ret>>
    /\ UNCHANGED <<ioVars, distVars, moreVars>>

\* FeatureSet.normalize(method), called once on a FeatureSet just built.
FsNormalize ==
    /\ api = "FeatureSet" /\ fpc = "built"
    /\ call.op = "FeatureSet"
    /\ \E method \in Methods :
         LET S == [feature_vecs |-> feature_vecs, id_to_feature |-> id_to_feature,
                   feature_to_id |-> feature_to_id, total |-> total,
                   props |-> props, err |-> "none"]
             R == FsNormalizeFields(S, method)
         IN  /\ feature_vecs' = R.feature_vecs
             /\ id_to_feature' = R.id_to_feature
             /\ feature_to_id' = R.feature_to_id
             /\ total' = R.total
             /\ props' = R.props
             /\ err' = R.err
             /\ call' = [op |-> "normalize", opts |-> <<method>>]
    /\ prev' = Fields
    /\ UNCHANGED <<api, streams, ss_total, fpc, ret>>
    /\ UNCHANGED <<ioVars, distVars, moreVars>>

\* gen.normalize(features) on a vector collection: the vectors are divided
\* in place.
GenNormalize ==
    /\ api = "vectors" /\ fpc = "built"
    /\ call.op = "none"
    /\ feature_vecs' = GenNormalizeVecs(feature_vecs)
    /\ fpc' = "normalized"
    /\ err' = "none"
    /\ call' = [op |-> "gen.normalize", opts |-> <<>>]
    /\ prev' = Fields
    /\ UNCHANGED <<api, streams, ss_total, id_to_feature, feature_to_id, total,
                   props, ret>>
    /\ UNCHANGED <<ioVars, distVars, moreVars>>

\* An index that keeps the position each token had before the reduction.
NewIdsOldPositions(ids, id_map) ==
    [t \in {s \in DOMAIN ids : \E k \in 1..Len(id_map) : id_map[k] = ids[s]} |->
        ids[t]]

\* The loop at the end of gen.features: each token whose old position is in
\* id_map gets the place of that position in id_map (id_map.index(value));
\* the other tokens are left out.
NewIds(ids, id_map) ==
    [t \in {s \in DOMAIN ids : \E k \in 1..Len(id_map) : id_map[k] = ids[s]} |->
        (CHOOSE k \in 1..Len(id_map) : id_map[k] = ids[t]) - 1]

\* gen.features(streams, delete, norm), the keys of the union stream taken
\* in the given order: the pair it returns, or the exception it raises
\* (KeyError from raw_features, IndexError from features[0] in
\* delete_features when there is no stream).
GenFeatures(ss, order, delete, norm) ==
    LET b == BuildFeatures(ss, order)
    IN  IF b.err # "none"
        THEN [err |-> b.err, vecs |-> <<>>, map |-> <<>>]
        ELSE IF ss = <<>>
        THEN [err |-> "IndexError", vecs |-> <<>>, map |-> <<>>]
        ELSE LET r == GenDeleteFeatures(b.feature_vecs, delete)
             IN  [err |-> "none",
                  vecs |-> IF norm THEN GenNormalizeVecs(r.vecs) ELSE r.vecs,
                  map |-> NewIds(b.ids, r.map)]

\* The calls of gen.features: features(streams), which normalizes, and
\* features(streams, delete = D, norm = False).
FeaturesArgs ==
    {[delete |-> D, norm |-> FALSE] : D \in Opts} \cup {[delete |-> <<>>, norm |-> TRUE]}

\* gen.features(streams, delete, norm)
GenFeaturesCall ==
    /\ api = "gen" /\ fpc = "init"
    /\ \E order \in Orders(DOMAIN CounterSum(streams)) : \E args \in FeaturesArgs :
         LET r == GenFeatures(streams, order, args.delete, args.norm)
         IN  /\ fpc' = IF r.err = "none" THEN "built" ELSE "failed"
             /\ err' = r.err
             /\ ret' = [vecs |-> r.vecs, map |-> r.map]
             /\ call' = [op |-> "gen.features", opts |-> args]
    /\ UNCHANGED <<api, streams, ss_total, feature_vecs, id_to_feature,
                   feature_to_id, total, props, prev>>
    /\ UNCHANGED <<ioVars, distVars, moreVars>>

NextGen ==
    \/ RawFeatures
    \/ GenFeaturesCall

SpecGen == InitFeat /\ [][NextGen]_vars

\* FeatureSet.process(delete, norm): delete_features(delete), then
\* normalize(norm) unless the reduction raised.
Process(S, delete, norm) ==
    LET R == FsDeleteFeatures(S, delete)
    IN  IF R.err # "none" THEN R ELSE FsNormalizeFields(R, norm)

\* Strategy names a caller passes as norm= to the constructor.
CtorNorms == {"none", "simple", "tf-idf-nolog"}

\* FeatureSet(corpus, delete = D, norm = M): __init__ collects the two
\* keywords in kwargs and calls self.process(kwargs), which binds the whole
\* dict to process's first parameter, delete, and leaves norm at its default
\* 'none'.
NewFeatureSetOpts ==
    /\ api = "FeatureSet" /\ fpc = "init"
    /\ \E order \in Orders(DOMAIN ss_total) : \E D \in Kwargs : \E M \in CtorNorms :
         LET kwargs == [delete |-> D, norm |-> M]
             b == BuildFeatures(streams, order)
             S == [feature_vecs |-> b.feature_vecs, id_to_feature |-> order,
                   feature_to_id |-> b.ids, total |-> None, props |-> None,
                   err |-> "none"]
             P == Process(S, kwargs, "none")
             e == IF b.err # "none" THEN b.err ELSE P.err
         IN  /\ IF e # "none"
                THEN /\ fpc' = "failed"
                     /\ err' = e
                     /\ UNCHANGED <<feature_vecs, id_to_feature, feature_to_id,
                                    total, props>>
                ELSE /\ fpc' = "built"
                     /\ err' = "none"
                     /\ feature_vecs' = P.feature_vecs
                     /\ id_to_feature' = P.id_to_feature
                     /\ feature_to_id' = P.feature_to_id
                     /\ total' = P.total
                     /\ props' = P.props
             /\ call' = [op |-> "FeatureSet", opts |-> kwargs]
    /\ prev' = Fields
    /\ UNCHANGED <<api, streams, ss_total, ret>>
    /\ UNCHANGED <<ioVars, distVars, moreVars>>

NextCtor ==
    \/ NewFeatureSet
    \/ NewFeatureSetOpts

SpecCtor == InitFeat /\ [][NextCtor]_vars

\* FeatureSet.normalize('simple') called again right after a first
\* normalize('simple'): the first call cleared the cache, so find_total sums
\* the normalized vectors, and the vectors are divided by that.
FsNormalizeAgain ==
    /\ api = "FeatureSet" /\ fpc = "built"
    /\ call.op = "normalize" /\ call.opts = <<"simple">>
    /\ feature_vecs' = DivideRowsF(feature_vecs, TotalF(feature_vecs))
    /\ total' = None
    /\ props' = None
    /\ err' = "none"
    /\ call' = [op |-> "normalize again", opts |-> <<"simple">>]
    /\ prev' = Fields
    /\ UNCHANGED <<api, streams, ss_total, fpc, id_to_feature, feature_to_id, ret>>
    /\ UNCHANGED <<ioVars, distVars, moreVars>>

\* gen.normalize(features) called again on the collection it normalized.
GenNormalizeAgain ==
    /\ api = "vectors" /\ fpc = "normalized"
    /\ feature_vecs' = DivideRowsF(feature_vecs, TotalF(feature_vecs))
    /\ fpc' = "renormalized"
    /\ err' = "none"
    /\ call' = [op |-> "gen.normalize again", opts |-> <<>>]
    /\ prev' = Fields
    /\ UNCHANGED <<api, streams, ss_total, id_to_feature, feature_to_id, total,
                   props, ret>>
    /\ UNCHANGED <<ioVars, distVars, moreVars>>

NextRenorm ==
    \/ NewFeatureSet
    \/ FsNormalize
    \/ GenNormalize
    \/ FsNormalizeAgain
    \/ GenNormalizeAgain

SpecRenorm == InitFeat /\ [][NextRenorm]_vars

\* ------------------------------------------------------------------------
\* Distances between feature vectors
\* ------------------------------------------------------------------------

\* The names dist.distance (and its copy util.distance) accepts.
Supported ==
    {"braycurtis", "canberra", "chebyshev", "cityblock", "correlation",
     "cosine", "dice", "euclidean", "hamming", "jaccard", "kulsinki",
     "matching", "rogerstainimoto", "russelrao", "sokalsneath",
     "sqeuclidean", "yule"}

\* The two-vector distance functions of scipy.spatial.distance, the module
\* that getattr(dist, s) looks the name up in.
ScipyDistance ==
    {"braycurtis", "canberra", "chebyshev", "cityblock", "correlation",
     "cosine", "dice", "euclidean", "hamming", "jaccard", "kulsinski",
     "mahalanobis", "matching", "minkowski", "rogerstanimoto", "russellrao",
     "seuclidean", "sokalmichener", "sokalsneath", "sqeuclidean", "yule"}

\* What a caller passes as the metric: a string, or a function (here scipy's
\* cosine, the default of stream.dist.dist).
MetricArgs ==
    {[str |-> TRUE, name |-> s] : s \in Supported \cup {"manhattan"}}
        \cup {[str |-> FALSE, name |-> "cosine"]}

\* dist.distance(s): a non-string is returned as it is; an accepted name is
\* looked up in scipy.spatial.distance with getattr, which raises
\* AttributeError for a name the module lacks; any other string raises
\* RuntimeError.
distance(s) ==
    IF ~s.str THEN [err |-> "none", fn |-> s.name]
    ELSE IF s.name \in Supported
    THEN IF s.name \in ScipyDistance THEN [err |-> "none", fn |-> s.name]
                                      ELSE [err |-> "AttributeError", fn |-> ""]
    ELSE [err |-> "RuntimeError", fn |-> ""]

\* A float64 vector holding the given counts.
Floats(v) == [j \in 1..Len(v) |-> <<v[j], 1>>]

\* A float64 array holding the given counts.
AsFractions(a) == [i \in 1..Len(a) |-> Floats(a[i])]

\* np.dot(u, v) for vectors of values that are not negative.
RECURSIVE Dot(_, _)
Dot(u, v) ==
    IF u = <<>> THEN <<0, 1>>
    ELSE FAdd(FMul(u[Len(u)], v[Len(v)]),
              Dot(SubSeq(u, 1, Len(u) - 1), SubSeq(v, 1, Len(v) - 1)))

\* The whole part of the square root of k.
Isqrt(k) == CHOOSE r \in 0..k : r * r <= k /\ (r + 1) * (r + 1) > k

\* The fraction x is the square of a fraction.
IsSquare(x) == Isqrt(x[1]) * Isqrt(x[1]) = x[1] /\ Isqrt(x[2]) * Isqrt(x[2]) = x[2]

\* scipy's cosine(u, v) = 1 - u.v / (|u| |v|) in exact arithmetic: a fraction
\* when |u| |v| is one, nan when a vector is all zero (0 / 0), and otherwise
\* the two numbers that determine the value.
Cosine(u, v) ==
    LET uv == Dot(u, v)
        nn == FMul(Dot(u, u), Dot(v, v))
    IN  IF ~IsFinite(uv) \/ ~IsFinite(nn) \/ nn[1] = 0 THEN NaN
        ELSE IF IsSquare(nn)
        THEN LET q == FDiv(uv, <<Isqrt(nn[1]), Isqrt(nn[2])>>)
             IN  Rat(q[2] - q[1], q[2])
        ELSE <<"1 - x / sqrt(y)", uv, nn>>

\* A cosine that divides by the squared lengths, without the square root.
ApplyMetricNoRoot(fn, u, v) ==
    LET uv == Dot(u, v)
        nn == FMul(Dot(u, u), Dot(v, v))
        q  == FDiv(uv, nn)
    IN  IF fn # "cosine" THEN <<fn, u, v>>
        ELSE IF nn[1] = 0 THEN NaN
        ELSE Rat(q[2] - q[1], q[2])

\* fn(u, v) for a scipy distance function: cosine is computed, the value of
\* any other function is kept as the application itself.
ApplyMetric(fn, u, v) ==
    IF fn = "cosine" THEN Cosine(u, v) ELSE <<fn, u, v>>

\* A FeatureSet built from a corpus without keyword arguments, or a list of
\* streams about to be given to feats.gen or stream.dist.
InitMetric ==
    /\ IoIdle
    /\ DistIdle
    /\ MoreIdle
    /\ api \in {"FeatureSet", "gen"}
    /\ streams \in PresenceLists
    /\ ss_total = CounterSum(streams)
    /\ IF api = "FeatureSet"
       THEN /\ fpc = "built"
            /\ id_to_feature \in Orders(DOMAIN ss_total)
            /\ feature_to_id = assign_indices(id_to_feature)
            /\ feature_vecs = BuildFeatures(streams, id_to_feature).feature_vecs
            /\ call = [op |-> "FeatureSet", opts |-> <<>>]
       ELSE /\ fpc = "init"
            /\ id_to_feature = <<>>
            /\ feature_to_id = <<>>
            /\ feature_vecs = <<>>
            /\ call = NoCall
    /\ total = None
    /\ props = None
    /\ err = "none"
    /\ prev = NoFields
    /\ ret = NoRet

\* featureset.dist(i1, i2, alg): the metric is resolved, then applied to the
\* two vectors.
FsDist ==
    /\ api = "FeatureSet" /\ fpc = "built"
    /\ metric = None
    /\ \E i1, i2 \in 0..(Len(feature_vecs) - 1) : \E alg \in MetricArgs :
         LET algfn == distance(alg)
         IN  metric' = Some([op |-> "FeatureSet.dist", alg |-> alg, i1 |-> i1,
                             i2 |-> i2, err |-> algfn.err, fn |-> algfn.fn,
                             val |-> IF algfn.err # "none" THEN None
                                     ELSE Some(ApplyMetric(algfn.fn,
                                                   Floats(feature_vecs[i1 + 1]),
                                                   Floats(feature_vecs[i2 + 1])))])
    /\ UNCHANGED <<featVars, ioVars, distVars, names, orig>>

\* scipy's cosine applied to the first two vectors raw_features returned.
RawCosine ==
    /\ api = "gen" /\ fpc = "built"
    /\ metric = None
    /\ Len(feature_vecs) >= 2
    /\ metric' = Some([op |-> "cosine", alg |-> [str |-> FALSE, name |-> "cosine"],
                       i1 |-> 0, i2 |-> 1, err |-> "none", fn |-> "cosine",
                       val |-> Some(Cosine(Floats(feature_vecs[1]),
                                           Floats(feature_vecs[2])))])
    /\ UNCHANGED <<featVars, ioVars, distVars, names, orig>>

\* stream.dist.dist(s1, s2) with its default metric: features([s1, s2]),
\* which normalizes, then scipy's cosine of the two vectors.
StreamDist ==
    /\ api = "gen" /\ fpc = "init"
    /\ metric = None
    /\ Len(streams) = 2
    /\ \E order \in Orders(DOMAIN CounterSum(streams)) :
         LET r == GenFeatures(streams, order, <<>>, TRUE)
         IN  metric' = Some([op |-> "stream.dist", alg |-> [str |-> FALSE, name |-> "cosine"],
                             i1 |-> 0, i2 |-> 1, err |-> r.err, fn |-> "cosine",
                             val |-> IF r.err # "none" THEN None
                                     ELSE Some(Cosine(r.vecs[1], r.vecs[2]))])
    /\ UNCHANGED <<featVars, ioVars, distVars, names, orig>>

NextMetric ==
    \/ RawFeatures
    \/ FsDist
    \/ RawCosine
    \/ StreamDist

SpecMetric == InitMetric /\ [][NextMetric]_vars

NextFeat ==
    \/ NewFeatureSet
    \/ RawFeatures
    \/ GenDelete
    \/ FsDelete
    \/ FsNormalize
    \/ GenNormalize

SpecFeat == InitFeat /\ [][NextFeat]_vars

\* ------------------------------------------------------------------------
\* StreamSet and Document
\* ------------------------------------------------------------------------

\* Document.__add__: a Document over the sum of the two counters.
DocumentAdd(a, b) == CounterAdd(a, b)

\* del seq[key] for a key in range(len(seq))
DelAt(seq, key) ==
    [i \in 1..(Len(seq) - 1) |-> IF i <= key THEN seq[i] ELSE seq[i + 1]]

\* StreamSet(streams) for a non-empty list of streams.
InitStream ==
    /\ IoIdle
    /\ DistIdle
    /\ api = "StreamSet"
    /\ streams \in StreamLists
    /\ ss_total = CounterSum(streams)
    /\ names = [i \in 1..Len(streams) |-> "None"]
    /\ FeatFresh
    /\ MoreFresh

\* streamset.append(stream): the stream is added to the list and the default
\* name None to the names, both in place, and the stream to the total
\* (total += stream is Counter addition).  No caller catches an exception, so the set is not used after a call that raised.
SsAppend ==
    /\ api = "StreamSet" /\ err = "none"
    /\ Len(streams) < MaxStreams
    /\ \E stream \in StreamVals :
         /\ streams' = Append(streams, stream)
         /\ ss_total' = CounterAdd(ss_total, stream)
    /\ names' = Append(names, "None")
    /\ call' = [op |-> "append", opts |-> <<>>]
    /\ UNCHANGED <<api, fpc, feature_vecs, id_to_feature, feature_to_id, total,
                   props, err, prev, ret>>
    /\ orig' = SharedUpdate(SharedUpdate(orig, "streams", streams'), "names", names')
    /\ UNCHANGED <<ioVars, distVars, metric>>

\* del streamset[key]: the stream (and its name) is removed from the list,
\* then isinstance(delete, list) reads the undefined name delete and raises
\* NameError before the total is touched.
SsDelItem ==
    /\ api = "StreamSet" /\ err = "none"
    /\ \E key \in 0..(Len(streams) - 1) :
         /\ streams' = DelAt(streams, key)
         /\ names' = DelAt(names, key)
    /\ err' = "NameError"
    /\ call' = [op |-> "__delitem__", opts |-> <<>>]
    /\ UNCHANGED <<api, ss_total, fpc, feature_vecs, id_to_feature, feature_to_id,
                   total, props, prev, ret>>
    /\ UNCHANGED <<ioVars, distVars, orig, metric>>

NextStream ==
    \/ SsAppend
    \/ SsDelItem

SpecStream == InitStream /\ [][NextStream]_vars

\* Name lists a caller may pass: one name repeated, of any length up to
\* MaxStreams, whether or not it matches the number of streams.
NameLists == UNION {[1..k -> {"x"}] : k \in 0..MaxStreams}

\* The names argument: absent (None) or a list.
NamesArgs == {None} \cup {Some(l) : l \in NameLists}

\* A check that lets the empty list through.
EmptyStreamsNever(l) == Len(l) < 0

\* The test guarding the raise at the top of StreamSet.__init__.
EmptyStreams(l) == Len(l) <= 0

\* The names a new StreamSet holds: the list given, or one None per stream.
InitialNames(l, arg) == IF arg # None THEN arg[1] ELSE [i \in 1..Len(l) |-> "None"]

\* Before any StreamSet exists.
InitNewSet ==
    /\ IoIdle
    /\ DistIdle
    /\ api = "StreamSetCall"
    /\ streams = <<>>
    /\ ss_total = <<>>
    /\ names = <<>>
    /\ FeatFresh
    /\ MoreFresh

\* StreamSet(streams, names): an empty list raises RuntimeError before any
\* attribute is set; otherwise the list is held as given, the total is the
\* Counter sum and the names are filled in.
NewStreamSet ==
    /\ api = "StreamSetCall" /\ err = "none"
    /\ \E l \in StreamLists \cup {<<>>} : \E arg \in NamesArgs :
         /\ IF EmptyStreams(l)
            THEN /\ err' = "RuntimeError"
                 /\ UNCHANGED <<api, streams, ss_total, names>>
            ELSE /\ err' = "none"
                 /\ api' = "StreamSet"
                 /\ streams' = l
                 /\ ss_total' = CounterSum(l)
                 /\ names' = InitialNames(l, arg)
         /\ call' = [op |-> "StreamSet", opts |-> [streams |-> l, names |-> arg]]
    /\ UNCHANGED <<fpc, feature_vecs, id_to_feature, feature_to_id, total,
                   props, prev, ret>>
    /\ UNCHANGED <<ioVars, distVars, orig, metric>>

NextNewSet ==
    \/ NewStreamSet
    \/ SsAppend

SpecNewSet == InitNewSet /\ [][NextNewSet]_vars

\* ------------------------------------------------------------------------
\* Clones
\* ------------------------------------------------------------------------

\* Corpora whose streams hold every token with a positive count.
CloneCorpora ==
    {l \in StreamLists : \A i \in 1..Len(l) : \A f \in DOMAIN l[i] : l[i][f] > 0}

\* A copy that leaves the vectors shared as well.
ShallowClone(S) ==
    [now |-> S, then |-> S,
     shared |-> {"feature_vecs", "id_to_feature", "feature_to_id"}]

\* FeatureSet.clone(): copy.copy gives the new object the same attribute
\* values, so the index list and dict stay shared; feature_vecs is replaced
\* by np.copy of it.  S is what the original holds, kept twice: as it is now
\* and as it was when the clone was taken.
FsCloneOf(S) ==
    [now |-> S, then |-> S, shared |-> {"id_to_feature", "feature_to_id"}]

\* StreamSet.clone(): StreamSet(self.streams[:], names = self.names[:]) --
\* new lists, and a total summed anew; nothing is shared.
SsCloneOf(S) == [now |-> S, then |-> S, shared |-> {}]

\* Strategy names given to normalize on a clone (the two logarithmic ones
\* write the vectors in place exactly as 'tf-idf-nolog' does).
CloneMethods == {"simple", "tf-idf-nolog", "none", "bogus"}

\* A corpus about to be given to FeatureSet, or a StreamSet.
InitClone ==
    /\ IoIdle
    /\ DistIdle
    /\ api \in {"FeatureSet", "StreamSet"}
    /\ streams \in CloneCorpora
    /\ ss_total = CounterSum(streams)
    /\ names = IF api = "StreamSet" THEN [i \in 1..Len(streams) |-> "None"] ELSE <<>>
    /\ FeatFresh
    /\ MoreFresh

\* fs2 = fs.clone(); from here on the feature set worked on is fs2.
FsClone ==
    /\ api = "FeatureSet" /\ fpc = "built"
    /\ orig = None
    /\ orig' = Some(FsCloneOf([feature_vecs |-> AsFractions(feature_vecs),
                               id_to_feature |-> id_to_feature,
                               feature_to_id |-> feature_to_id]))
    /\ call' = [op |-> "clone", opts |-> <<>>]
    /\ UNCHANGED <<api, streams, ss_total, fpc, feature_vecs, id_to_feature,
                   feature_to_id, total, props, err, prev, ret>>
    /\ UNCHANGED <<ioVars, distVars, names, metric>>

\* fs2.delete_features(opts): every attribute it changes is assigned a new
\* object, so what it replaces is no longer shared with the original.
CloneDelete ==
    /\ api = "FeatureSet" /\ fpc = "built"
    /\ orig # None /\ call.op = "clone"
    /\ \E opts \in Kwargs :
         LET S == [feature_vecs |-> feature_vecs, id_to_feature |-> id_to_feature,
                   feature_to_id |-> feature_to_id, total |-> total,
                   props |-> props, err |-> "none"]
             R == FsDeleteFeatures(S, opts)
         IN  /\ feature_vecs' = R.feature_vecs
             /\ id_to_feature' = R.id_to_feature
             /\ feature_to_id' = R.feature_to_id
             /\ total' = R.total
             /\ props' = R.props
             /\ err' = R.err
             /\ call' = [op |-> "delete_features", opts |-> opts]
             /\ orig' = Some([orig[1] EXCEPT !.shared =
                                 IF R.err = "NameError"
                                 THEN @ \ {"feature_vecs", "id_to_feature"}
                                 ELSE @])
    /\ prev' = Fields
    /\ UNCHANGED <<api, streams, ss_total, fpc, ret>>
    /\ UNCHANGED <<ioVars, distVars, names, metric>>

\* fs2.normalize(method), after the clone or after a reduction that
\* completed: the vectors are divided or multiplied in place.
CloneNormalize ==
    /\ api = "FeatureSet" /\ fpc = "built"
    /\ orig # None /\ call.op \in {"clone", "delete_features"}
    /\ err = "none"
    /\ \E method \in CloneMethods :
         LET S == [feature_vecs |-> feature_vecs, id_to_feature |-> id_to_feature,
                   feature_to_id |-> feature_to_id, total |-> total,
                   props |-> props, err |-> "none"]
             R == FsNormalizeFields(S, method)
         IN  /\ feature_vecs' = R.feature_vecs
             /\ id_to_feature' = R.id_to_feature
             /\ feature_to_id' = R.feature_to_id
             /\ total' = R.total
             /\ props' = R.props
             /\ err' = R.err
             /\ call' = [op |-> "normalize", opts |-> <<method>>]
             /\ orig' = SharedUpdate(orig, "feature_vecs",
                                     IF method \in {"simple", "tf-idf-nolog"}
                                     THEN R.feature_vecs
                                     ELSE AsFractions(R.feature_vecs))
    /\ prev' = Fields
    /\ UNCHANGED <<api, streams, ss_total, fpc, ret>>
    /\ UNCHANGED <<ioVars, distVars, names, metric>>

\* ss2 = ss.clone(); from here on the set worked on is ss2.
SsClone ==
    /\ api = "StreamSet" /\ err = "none"
    /\ orig = None
    /\ orig' = Some(SsCloneOf([streams |-> streams, names |-> names,
                               total |-> ss_total]))
    /\ ss_total' = CounterSum(streams)
    /\ call' = [op |-> "clone", opts |-> <<>>]
    /\ UNCHANGED <<api, streams, fpc, feature_vecs, id_to_feature, feature_to_id,
                   total, props, err, prev, ret>>
    /\ UNCHANGED <<ioVars, distVars, names, metric>>

NextClone ==
    \/ NewFeatureSet
    \/ FsClone
    \/ CloneDelete
    \/ CloneNormalize
    \/ SsAppend
    \/ SsClone

SpecClone == InitClone /\ [][NextClone]_vars

\* ------------------------------------------------------------------------
\* CondensedDistanceMatrix
\* ------------------------------------------------------------------------

\* Most data points of a distance matrix.
MaxPoints == 3

\* The distances a condensed list may hold.
DistVals == {1, 2, 3}

\* Number of entries of the condensed list for k points.
CondensedLen(k) == (k * (k - 1)) \div 2

\* seq[idx] of a Python list: a negative index counts from the end, an index
\* outside -len..len-1 raises IndexError.
PyIndex(seq, idx) ==
    IF 0 <= idx /\ idx < Len(seq) THEN [err |-> "none", val |-> Some(seq[idx + 1])]
    ELSE IF idx < 0 /\ -Len(seq) <= idx
    THEN [err |-> "none", val |-> Some(seq[Len(seq) + idx + 1])]
    ELSE [err |-> "IndexError", val |-> None]

\* The position get(i, j) reads in the condensed list, for i # j.
CdmIndex(k, i, j) == (k * j) - ((j * (j + 1)) \div 2) + i - j - 1

\* CondensedDistanceMatrix.get(i, j)
CdmGet(k, list, i, j) ==
    IF i = j THEN [err |-> "none", val |-> Some(0)]
    ELSE PyIndex(list, CdmIndex(k, i, j))

\* scipy.spatial.distance.squareform of a condensed list for k points: the
\* symmetric matrix with a zero diagonal whose strict upper triangle, read
\* row by row, is the list.
Squareform(k, list) ==
    [r \in 1..k |-> [c \in 1..k |->
        IF r = c THEN 0
        ELSE LET lo == Min(r, c) - 1
                 hi == Max(r, c) - 1
             IN  list[(k * lo) - ((lo * (lo + 1)) \div 2) + (hi - lo - 1) + 1]]]

\* CondensedDistanceMatrix(num_ps, cdm) with a condensed list of the length
\* that num_ps points need.
InitDist ==
    /\ IoIdle
    /\ FeatIdle
    /\ MoreIdle
    /\ num_ps \in 2..MaxPoints
    /\ cdm \in [1..CondensedLen(num_ps) -> DistVals]
    /\ DistFresh

\* cdm.get(i, j), also reached as cdm[i][j]
DistGet ==
    /\ num_ps >= 2
    /\ \E i, j \in 0..(num_ps - 1) :
         LET r == CdmGet(num_ps, cdm, i, j)
         IN  /\ dcall' = [op |-> "get", i |-> i, j |-> j]
             /\ got' = r.val
             /\ derr' = r.err
    /\ dprev' = IF dcall.op = "get" THEN [i |-> dcall.i, j |-> dcall.j, got |-> got]
                                    ELSE dprev
    /\ UNCHANGED <<num_ps, cdm, square>>
    /\ UNCHANGED <<ioVars, featVars, moreVars>>

\* cdm.squareform()
DistSquareform ==
    /\ num_ps >= 2
    /\ square' = Squareform(num_ps, cdm)
    /\ UNCHANGED <<num_ps, cdm, dcall, got, derr, dprev>>
    /\ UNCHANGED <<ioVars, featVars, moreVars>>

NextDist ==
    \/ DistGet
    \/ DistSquareform

SpecDist == InitDist /\ [][NextDist]_vars

\* ------------------------------------------------------------------------
\* Properties of the tokenizers
\* ------------------------------------------------------------------------

\* The last read returned nothing: the source is at the end of its data.
EmptyReadSeen == rd.k = buffer_size /\ rd.res = <<>>

\* The withheld word, as the list of words still owed.
Carry == IF next_buf = <<>> THEN <<>> ELSE <<next_buf>>

\* A measure every pass of words must lower for the loop to end.
WordsMeasure ==
    2 * (Len(src) - pos) + (IF next_buf = <<>> THEN 0 ELSE 1)
                         + (IF pc = "done" THEN 0 ELSE 1)

\* No pass leaves the measure where it was, and a pass is possible until the
\* loop is left.
WordsTerminates ==
    /\ WordsMeasure >= 0
    /\ \A c \in ChunkSizes : ~ENABLED (WordsStep(c) /\ WordsMeasure' >= WordsMeasure)
    /\ (pc \in {"created", "running"} => ENABLED (\E c \in ChunkSizes : WordsStep(c)))

\* The sliding windows of size k over the word sequence w.
Windows(w, k) == [i \in 1..Max(0, Len(w) - k + 1) |-> SubSeq(w, i, i + k - 1)]

\* C1: for every input and every chunking of it, io.words terminates and
\* yields exactly the whitespace split of the whole input: at every moment the
\* words yielded plus the withheld word are the split of what was read, and
\* once the loop is left everything was read and out is the split of it.
C1_IoWordsEqualsSplit ==
    (impl = "io" /\ mode = "words") =>
        /\ cat = SubSeq(src, 1, pos)
        /\ out \o Carry = split(cat)
        /\ (pc = "done" => cat = src /\ out = split(src))
        /\ WordsTerminates

\* C1 witness: io.words ran to its end on an input of two or more words whose
\* last word is closed by the end of input only.
C1_Witness ==
    /\ impl = "io" /\ mode = "words" /\ pc = "done"
    /\ Len(out) >= 2
    /\ ~isspace(src[Len(src)])

\* C2: the token sequence of philIO.words is finite: once the source returns
\* an empty read the last word has been emitted, nothing is withheld, and the
\* loop terminates.
C2_PhilIOWordsFinite ==
    (impl = "philIO" /\ mode = "words") =>
        /\ (EmptyReadSeen => next_buf = <<>> /\ out = split(src))
        /\ WordsTerminates

\* C3: for n >= 1, once the input is exhausted the n-gram tokenizer of either
\* module has yielded exactly the max(0, L-n+1) sliding windows of the input's
\* word sequence, in order, each of length n.
C3_NgramsAreWindows ==
    (mode = "ngrams" /\ n >= 1) =>
        /\ \A i \in 1..Len(grams) : Len(grams[i]) = n
        /\ (EmptyReadSeen =>
               /\ Len(grams) = Max(0, Len(split(src)) - n + 1)
               /\ grams = Windows(split(src), n))

\* C4: an n-gram tokenizer asked for with n <= 0 ends in the error, emits no
\* n-gram and issues no read: io.ngrams raises on the call, philIO.ngrams when
\* the generator is first driven.
C4_NgramsRejectsBadN ==
    (mode = "ngrams" /\ n <= 0) =>
        /\ grams = <<>> /\ out = <<>>
        /\ rd = NoRead /\ cat = <<>> /\ pos = 0
        /\ pc \in {"start", "created", "error"}
        /\ (pc = "created" => impl = "philIO" /\ ENABLED RaiseOnFirstNext)
        /\ (pc = "start" => ENABLED Request)
        /\ \A c \in ChunkSizes : ~ENABLED WordsStep(c)

\* C4 witness: the philIO generator made with n = 0 was driven and raised.
C4_Witness ==
    mode = "ngrams" /\ n = 0 /\ impl = "philIO" /\ pc = "error" /\ Len(src) > 0

\* C5: reads of a FilelikeString: what was returned so far is the prefix of s
\* up to the read position, a read of k >= 1 returns exactly k characters or
\* all that remain, nothing after the end, and the position stays in
\* [0, len(s)] and does not go back.
C5_FilelikeStringRead ==
    /\ pos \in 0..Len(src)
    /\ cat = SubSeq(src, 1, pos)
    /\ rd.before <= pos
    /\ (mode = "read" /\ rd.k >= 1 =>
           /\ Len(rd.res) = Min(rd.k, Len(src) - rd.before)
           /\ rd.res = SubSeq(src, rd.before + 1, rd.before + Len(rd.res))
           /\ pos = rd.before + Len(rd.res)
           /\ (rd.before = Len(src) => rd.res = <<>>))

\* C5 witness: a read of k >= 2 characters came back short, at the end of the
\* string, after an earlier read.
C5_Witness ==
    /\ mode = "read"
    /\ rd.k >= 2 /\ rd.before > 0
    /\ Len(rd.res) > 0 /\ Len(rd.res) < rd.k

\* ------------------------------------------------------------------------
\* Properties of the feature pipeline
\* ------------------------------------------------------------------------

\* Every token that is a key of some stream.
StreamKeys == UNION {DOMAIN streams[i] : i \in 1..Len(streams)}

\* Column j (counted from 0) of the collection a has its total within the
\* occurrence bounds of opts and its share of vectors with a nonzero value
\* within the frequency bounds of opts, each bound included; a bound that
\* opts lacks allows everything.
NonzeroRows(a, j) == Cardinality({i \in 1..Len(a) : a[i][j + 1] # 0})

WithinBounds(a, opts, j) ==
    /\ "minocc" \in DOMAIN opts =>
           opts.minocc[1] <= ColSumFrom(a, j + 1, 1) * opts.minocc[2]
    /\ "maxocc" \in DOMAIN opts =>
           ColSumFrom(a, j + 1, 1) * opts.maxocc[2] <= opts.maxocc[1]
    /\ "minfreq" \in DOMAIN opts =>
           opts.minfreq[1] * Len(a) <= NonzeroRows(a, j) * opts.minfreq[2]
    /\ "maxfreq" \in DOMAIN opts =>
           NonzeroRows(a, j) * opts.maxfreq[2] <= opts.maxfreq[1] * Len(a)

\* C6: for streams with non-negative counts, a token possibly present with
\* count 0, index building (FeatureSet(corpus) without keyword arguments, or
\* raw_features) completes and
\* vector[i][index[t]] = streams[i].get(t, 0) for every stream i and every
\* token t that is a key of some stream.
C6_IndexBuildingRoundTrip ==
    (call.op \in {"FeatureSet", "raw_features"} /\ DOMAIN call.opts = {}) =>
        /\ fpc = "built"
        /\ \A i \in 1..Len(streams) : \A t \in StreamKeys :
               feature_vecs[i][feature_to_id[t] + 1] = Get(streams[i], t)

\* C7: after a construction that completed, the feature index is a bijection
\* between the tokens of the union stream and 0..n-1:
\* feature_to_id[id_to_feature[k]] = k for every k, id_to_feature[feature_to_id[t]]
\* = t for every token t, and every vector has length n.
C7_FeatureIndexIsBijection ==
    (call.op \in {"FeatureSet", "raw_features"} /\ fpc = "built") =>
        LET width == Cardinality(DOMAIN ss_total)
        IN  /\ DOMAIN feature_to_id = DOMAIN ss_total
            /\ \A t \in DOMAIN feature_to_id : feature_to_id[t] \in 0..(width - 1)
            /\ \A s, t \in DOMAIN feature_to_id :
                   feature_to_id[s] = feature_to_id[t] => s = t
            /\ \A i \in 1..Len(feature_vecs) : Len(feature_vecs[i]) = width
            /\ api = "FeatureSet" =>
                   /\ Len(id_to_feature) = width
                   /\ \A k \in 0..(width - 1) : feature_to_id[id_to_feature[k + 1]] = k
                   /\ \A t \in DOMAIN ss_total :
                          id_to_feature[feature_to_id[t] + 1] = t

C7_Witness ==
    /\ call.op = "FeatureSet" /\ fpc = "built"
    /\ Len(streams) = 2
    /\ Len(id_to_feature) = 2
    /\ feature_to_id["b"] = 0

\* C8: gen.delete_features returns as reduction map exactly the original
\* column indices whose total and nonzero share lie within the supplied
\* bounds (bounds included), in strictly increasing order, and each returned
\* vector v' has v'[k] = v[map[k]] at every position k.
C8_GenDeleteFeatures ==
    call.op = "gen.delete_features" =>
        /\ {ret.map[k] : k \in 1..Len(ret.map)} =
               {j \in 0..(Width(feature_vecs) - 1) :
                    WithinBounds(feature_vecs, call.opts, j)}
        /\ \A k \in 1..(Len(ret.map) - 1) : ret.map[k] < ret.map[k + 1]
        /\ Len(ret.vecs) = Len(feature_vecs)
        /\ \A v \in 1..Len(ret.vecs) :
               /\ Len(ret.vecs[v]) = Len(ret.map)
               /\ \A k \in 1..Len(ret.map) :
                      ret.vecs[v][k] = feature_vecs[v][ret.map[k] + 1]

C8_Witness ==
    /\ call.op = "gen.delete_features"
    /\ DOMAIN call.opts = {"maxocc", "minfreq"}
    /\ Width(feature_vecs) = 2
    /\ ret.map = <<1>>
    /\ ColSumFrom(feature_vecs, 2, 1) = 1

\* C9: after FeatureSet.delete_features with thresholds that remove at least
\* one column, the call completed and the feature set is consistent: every
\* vector is as wide as id_to_feature and feature_to_id are long,
\* feature_to_id[id_to_feature[k]] = k for every remaining k, and each
\* remaining column holds the values it held before under the same token.
C9_FsDeleteKeepsConsistent ==
    (/\ call.op = "delete_features"
     /\ \E j \in 0..(Width(prev.feature_vecs) - 1) :
            ~WithinBounds(prev.feature_vecs, call.opts, j)) =>
        /\ err = "none"
        /\ Cardinality(DOMAIN feature_to_id) = Len(id_to_feature)
        /\ \A i \in 1..Len(feature_vecs) : Len(feature_vecs[i]) = Len(id_to_feature)
        /\ \A k \in 1..Len(id_to_feature) :
               /\ id_to_feature[k] \in DOMAIN feature_to_id
               /\ feature_to_id[id_to_feature[k]] = k - 1
               /\ \A i \in 1..Len(feature_vecs) :
                      feature_vecs[i][k] =
                          prev.feature_vecs[i][prev.feature_to_id[id_to_feature[k]] + 1]

\* C10: with maxfreq = 1.0 as the only threshold, FeatureSet.delete_features
\* and gen.delete_features both complete without error and leave the vectors
\* and the feature index as they were before the call.
C10_MaxfreqOneKeepsAll ==
    /\ (call.op = "delete_features" /\ DOMAIN call.opts = {"maxfreq"}
           /\ call.opts.maxfreq = <<1, 1>>) =>
           /\ err = "none"
           /\ feature_vecs = prev.feature_vecs
           /\ id_to_feature = prev.id_to_feature
           /\ feature_to_id = prev.feature_to_id
    /\ (call.op = "gen.delete_features" /\ DOMAIN call.opts = {"maxfreq"}
           /\ call.opts.maxfreq = <<1, 1>>) =>
           /\ ret.vecs = feature_vecs
           /\ ret.map = Range0(Width(feature_vecs))

\* C11: reduction with no thresholds is the identity: gen.delete_features
\* returns the input vectors unchanged with the map 0, 1, ..., n-1, and
\* FeatureSet.delete_features leaves feature_vecs, id_to_feature,
\* feature_to_id and the cached total and props unchanged.
C11_EmptyOptsIsIdentity ==
    /\ (call.op = "gen.delete_features" /\ DOMAIN call.opts = {}) =>
           /\ ret.vecs = feature_vecs
           /\ ret.map = [k \in 1..Len(feature_vecs[1]) |-> k - 1]
    /\ (call.op = "delete_features" /\ DOMAIN call.opts = {}) =>
           /\ err = "none"
           /\ Fields = prev

C11_Witness ==
    /\ call.op = "delete_features" /\ DOMAIN call.opts = {}
    /\ Len(id_to_feature) = 2
    /\ total # None
    /\ prev.total = total

\* C12: when every column satisfies the supplied thresholds,
\* FeatureSet.delete_features completes as a no-op: feature_vecs,
\* id_to_feature and feature_to_id are unchanged.
C12_NoRemovalIsNoOp ==
    (/\ call.op = "delete_features"
     /\ \A j \in 0..(Width(prev.feature_vecs) - 1) :
            WithinBounds(prev.feature_vecs, call.opts, j)) =>
        /\ err = "none"
        /\ feature_vecs = prev.feature_vecs
        /\ id_to_feature = prev.id_to_feature
        /\ feature_to_id = prev.feature_to_id

\* ------------------------------------------------------------------------
\* Properties of the distance matrix
\* ------------------------------------------------------------------------

\* C13: for every pair of indices i # j in 0..n-1, get(i, j) = get(j, i).
C13_GetIsSymmetric ==
    (/\ dcall.op = "get" /\ dcall.i # dcall.j
     /\ dprev.i = dcall.j /\ dprev.j = dcall.i /\ dprev.got # None) =>
        /\ derr = "none"
        /\ got = dprev.got

\* C14: for n >= 2, a condensed list of n(n-1)/2 values and i, j in 0..n-1,
\* get(i, j) is entry (i, j) of the dense symmetric zero-diagonal matrix
\* that squareform() returns, whose strict upper triangle read row by row is
\* the condensed list; get(i, i) = 0.
C14_GetMatchesSquareform ==
    /\ (dcall.op = "get" /\ dcall.i = dcall.j) => got = Some(0)
    /\ (dcall.op = "get" /\ square # <<>>) =>
           /\ derr = "none"
           /\ got = Some(square[dcall.i + 1][dcall.j + 1])

\* ------------------------------------------------------------------------
\* Properties of streams and stream sets
\* ------------------------------------------------------------------------

\* The two streams hold the same count for every token.
SameCounts(x, y) == \A t \in Tokens : Get(x, t) = Get(y, t)

\* The streams to add: those held by the set, and its total.
Held == {streams[i] : i \in 1..Len(streams)} \cup {ss_total}

\* The lists that hold the streams of the set in another order.
Reorderings ==
    {[i \in 1..Len(streams) |-> streams[p[i]]] :
        p \in {q \in [1..Len(streams) -> 1..Len(streams)] :
                  \A i, j \in 1..Len(streams) : q[i] = q[j] => i = j}}

RECURSIVE CountFrom(_, _, _)
CountFrom(ss, t, i) ==
    IF i > Len(ss) THEN 0 ELSE Get(ss[i], t) + CountFrom(ss, t, i + 1)

\* C15: stream addition is commutative and associative over non-negative
\* counts: a+b and b+a, and (a+b)+c and a+(b+c), hold the same count for
\* every token; the total a StreamSet builds by repeated addition is the
\* same for every order of its streams.
C15_AdditionCommutesAndAssociates ==
    /\ \A a, b \in Held : SameCounts(DocumentAdd(a, b), DocumentAdd(b, a))
    /\ \A a, b, c \in Held :
           SameCounts(DocumentAdd(DocumentAdd(a, b), c),
                      DocumentAdd(a, DocumentAdd(b, c)))
    /\ \A order \in Reorderings :
           /\ SameCounts(CounterSum(order), CounterSum(streams))
           /\ err = "none" => SameCounts(ss_total, CounterSum(order))

C15_Witness ==
    /\ call.op = "append" /\ err = "none"
    /\ Len(streams) = 2
    /\ Get(streams[1], "a") = 1 /\ Get(streams[1], "b") = 0
    /\ Get(streams[2], "b") = 1 /\ Get(streams[2], "a") = 0
    /\ Get(ss_total, "a") = 1 /\ Get(ss_total, "b") = 1

\* C16: after any sequence of append(stream) and del streamset[key], each
\* operation completed and total is the element-wise sum of the streams the
\* set holds.
C16_TotalIsSumOfHeld ==
    call.op \in {"append", "__delitem__"} =>
        /\ err = "none"
        /\ \A t \in Tokens : Get(ss_total, t) = CountFrom(streams, t, 1)

\* ------------------------------------------------------------------------
\* Properties of normalization
\* ------------------------------------------------------------------------

\* The last call was a 'simple' normalization.
SimpleCalled ==
    \/ call.op = "gen.normalize"
    \/ call.op = "normalize" /\ call.opts = <<"simple">>

\* No column of the collection a sums to 0.
NoZeroColumn(a) == \A j \in 1..Len(a[1]) : ColSumFrom(a, j, 1) # 0

\* The sum of column j of a collection of rationals, as a fraction.
RECURSIVE RatColSumFrom(_, _, _)
RatColSumFrom(a, j, i) ==
    IF i > Len(a) THEN <<0, 1>>
    ELSE LET x == a[i][j]
             r == RatColSumFrom(a, j, i + 1)
         IN  <<x[1] * r[2] + r[1] * x[2], x[2] * r[2]>>

\* C17: on a collection with no zero-total column, 'simple' normalization
\* (FeatureSet.normalize('simple') and gen.normalize) replaces every value
\* v[i][j] by v[i][j] divided by the sum of column j, so that afterwards
\* every column sums to 1.
C17_SimpleNormalization ==
    (SimpleCalled /\ NoZeroColumn(prev.feature_vecs)) =>
        /\ err = "none"
        /\ Len(feature_vecs) = Len(prev.feature_vecs)
        /\ \A i \in 1..Len(feature_vecs) :
               /\ Len(feature_vecs[i]) = Len(prev.feature_vecs[i])
               /\ \A j \in 1..Len(feature_vecs[i]) :
                      /\ feature_vecs[i][j][2] > 0
                      /\ feature_vecs[i][j][1] * ColSumFrom(prev.feature_vecs, j, 1) =
                             prev.feature_vecs[i][j] * feature_vecs[i][j][2]
        /\ \A j \in 1..Len(feature_vecs[1]) :
               LET s == RatColSumFrom(feature_vecs, j, 1)
               IN  s[2] > 0 /\ s[1] = s[2]

C17_Witness ==
    /\ call.op = "normalize" /\ call.opts = <<"simple">>
    /\ Len(feature_vecs) = 2
    /\ Len(feature_vecs[1]) = 2
    /\ feature_vecs[1][1] = <<1, 2>>
    /\ feature_vecs[2][2] = <<1, 1>>

\* C18: 'simple' normalization of a collection with a column whose total is
\* 0 fails with a DivisionUndefined error that reaches the caller; it does
\* not return normally.
C18_ZeroColumnRaises ==
    (SimpleCalled /\ ~NoZeroColumn(prev.feature_vecs)) => err = "DivisionUndefined"

\* C19: FeatureSet.normalize('tf-idf-nolog') multiplies every value of
\* column j by 1/prop[j], prop[j] being the number of vectors with a nonzero
\* value in column j over the number of vectors; zero entries stay zero and
\* the nonzero positions are the same.
C19_TfIdfNoLog ==
    (call.op = "normalize" /\ call.opts = <<"tf-idf-nolog">>) =>
        /\ err = "none"
        /\ Len(feature_vecs) = Len(prev.feature_vecs)
        /\ \A i \in 1..Len(feature_vecs) :
               /\ Len(feature_vecs[i]) = Len(prev.feature_vecs[i])
               /\ \A j \in 1..Len(feature_vecs[i]) :
                      /\ feature_vecs[i][j][2] > 0
                      /\ feature_vecs[i][j][1] * NonzeroRows(prev.feature_vecs, j - 1) =
                             prev.feature_vecs[i][j] * Len(prev.feature_vecs)
                                 * feature_vecs[i][j][2]
                      /\ (feature_vecs[i][j][1] = 0) = (prev.feature_vecs[i][j] = 0)

C19_Witness ==
    /\ call.op = "normalize" /\ call.opts = <<"tf-idf-nolog">>
    /\ Len(feature_vecs) = 2
    /\ Len(feature_vecs[1]) = 2
    /\ feature_vecs[1][1] = <<2, 1>>
    /\ feature_vecs[2][1] = <<0, 1>>

\* C20: FeatureSet.normalize with a strategy name other than 'simple',
\* 'tf-idf', 'tf-idf-log2', 'tf-idf-nolog' or 'none' fails with an
\* invalid-argument error (RuntimeError) and leaves feature_vecs, the feature
\* index and the caches unchanged; 'none' returns normally and leaves them
\* unchanged.
C20_UnknownMethodRejected ==
    /\ (/\ call.op = "normalize"
        /\ call.opts[1] \notin {"simple", "tf-idf", "tf-idf-log2", "tf-idf-nolog", "none"}) =>
           /\ err = "RuntimeError"
           /\ Fields = prev
    /\ (call.op = "normalize" /\ call.opts = <<"none">>) =>
           /\ err = "none"
           /\ Fields = prev

C20_Witness ==
    /\ call.op = "normalize" /\ call.opts = <<"bogus">>
    /\ err = "RuntimeError"
    /\ Len(id_to_feature) = 2
    /\ total # None


\* ------------------------------------------------------------------------
\* Cache coherence

\* C27: on a FeatureSet, after any of its calls (those that end in an error
\* included), a cached total that is not None is the column sums of the
\* current feature_vecs and a cached props that is not None is the column
\* proportions of the current feature_vecs.
C27_CachesMatchVectors ==
    (api = "FeatureSet" /\ fpc = "built") =>
        /\ total # None => total[1] = Total(feature_vecs)
        /\ props # None => props[1] = proportions(feature_vecs)

\* C29: for n >= 2 and i # j in 0..n-1, the position that get(i, j) reads
\* lies in 0..n(n-1)/2 - 1, the positions of the condensed list.
C29_IndexWithinStorage ==
    (dcall.op = "get" /\ dcall.i # dcall.j) =>
        CdmIndex(num_ps, dcall.i, dcall.j) \in 0..(CondensedLen(num_ps) - 1)

\* ------------------------------------------------------------------------
\* Token boundaries

\* The positions in s at which a whitespace-separated token ends, in order.
TokenEnds(s) ==
    SelectSeq([i \in 1..Len(s) |-> i],
              LAMBDA i : ~isspace(s[i]) /\ (i = Len(s) \/ isspace(s[i + 1])))

\* C26: io.words yields a token only once its right boundary is known: after
\* every pass, the last token yielded is followed by whitespace in the input
\* read so far, or an empty read has been seen; a token that ends at the last
\* character read (with no empty read) is withheld as the carry, and the
\* carry holds no whitespace.
C26_TokenAfterBoundary ==
    (impl = "io" /\ mode = "words") =>
        /\ \A i \in 1..Len(next_buf) : ~isspace(next_buf[i])
        /\ out # <<>> =>
               \/ EmptyReadSeen
               \/ LET e == TokenEnds(cat)[Len(out)]
                  IN  e < Len(cat) /\ isspace(cat[e + 1])
        /\ (cat # <<>> /\ ~isspace(cat[Len(cat)]) /\ ~EmptyReadSeen) =>
               /\ next_buf = split(cat)[Len(split(cat))]
               /\ out = SubSeq(split(cat), 1, Len(split(cat)) - 1)

\* C26 witness: a token was yielded before the end of input, and another one,
\* ending at the last character read, is withheld.
C26_Witness ==
    /\ impl = "io" /\ mode = "words" /\ pc = "running"
    /\ out # <<>> /\ next_buf # <<>>
    /\ ~EmptyReadSeen
    /\ pos < Len(src)

\* ------------------------------------------------------------------------
\* StreamSet construction

SimpleCalledAgain == call.op \in {"normalize again", "gen.normalize again"}

\* The collection before the first of the two applications had no column
\* that sums to 0: after it no value is nan.
NoNaN(a) == \A i \in 1..Len(a) : \A j \in 1..Len(a[i]) : a[i][j] # NaN

\* C21 (as the code behaves): on a collection with no zero-total column, a
\* second 'simple' normalization leaves the vectors as the first one made
\* them: every column already sums to 1, so the second divides by 1.
C21_SimpleTwiceEqualsOnce ==
    (SimpleCalledAgain /\ NoNaN(prev.feature_vecs)) =>
        /\ err = "none"
        /\ feature_vecs = prev.feature_vecs

\* C21 witness: a second normalization of a FeatureSet of two streams and
\* two columns whose values the first one changed.
C21_Witness ==
    /\ call.op = "normalize again"
    /\ Len(feature_vecs) = 2
    /\ Len(feature_vecs[1]) = 2
    /\ feature_vecs[1][1] = <<1, 2>>

\* C21 (as stated): on a collection with no zero-total column, applying
\* 'simple' normalization twice gives vectors different from applying it
\* once.
C21_SimpleNotIdempotent ==
    (SimpleCalledAgain /\ NoNaN(prev.feature_vecs)
        /\ Len(feature_vecs) > 0 /\ Len(feature_vecs[1]) > 0) =>
        feature_vecs # prev.feature_vecs

\* ------------------------------------------------------------------------
\* Options at instantiation

\* The vectors of the fields S after normalize(method), as fractions.
VecsAfter(S, method) ==
    IF method = "none" THEN AsFractions(S.feature_vecs) ELSE S.feature_vecs

\* C22: FeatureSet(corpus, delete = D, norm = M) gives the vectors and the
\* feature index that FeatureSet(corpus) followed by delete_features(D) and
\* normalize(M) gives (compared where those two calls complete).
C22_CtorAppliesOptions ==
    (/\ call.op = "FeatureSet" /\ DOMAIN call.opts = {"delete", "norm"}
     /\ fpc = "built") =>
        \E order \in Orders(DOMAIN ss_total) :
            LET b  == BuildFeatures(streams, order)
                S0 == [feature_vecs |-> b.feature_vecs, id_to_feature |-> order,
                       feature_to_id |-> b.ids, total |-> None, props |-> None,
                       err |-> "none"]
                S1 == FsDeleteFeatures(S0, call.opts.delete)
                S2 == FsNormalizeFields(S1, call.opts.norm)
            IN  /\ b.err = "none"
                /\ S1.err = "none" =>
                       /\ AsFractions(feature_vecs) = VecsAfter(S2, call.opts.norm)
                       /\ id_to_feature = S2.id_to_feature
                       /\ feature_to_id = S2.feature_to_id

\* ------------------------------------------------------------------------
\* gen.features

\* The column of token t across the streams, as a one-column collection.
TokenColumn(t) == [i \in 1..Len(streams) |-> <<Get(streams[i], t)>>]

\* C28: when gen.features(streams, delete = D, norm = False) returns, the
\* index it returns holds exactly the tokens whose column is within the
\* bounds of D, maps them one-to-one onto 0..w-1 for w the width of the
\* vectors returned, and vector[i][index[t]] is the count of t in stream i.
C28_GenFeaturesIndex ==
    (call.op = "gen.features" /\ ~call.opts.norm /\ err = "none") =>
        LET w == Width(ret.vecs)
        IN  /\ Len(ret.vecs) = Len(streams)
            /\ \A i \in 1..Len(ret.vecs) : Len(ret.vecs[i]) = w
            /\ DOMAIN ret.map =
                   {t \in DOMAIN ss_total :
                        WithinBounds(TokenColumn(t), call.opts.delete, 0)}
            /\ {ret.map[t] : t \in DOMAIN ret.map} = 0..(w - 1)
            /\ \A s, t \in DOMAIN ret.map : ret.map[s] = ret.map[t] => s = t
            /\ \A i \in 1..Len(streams) : \A t \in DOMAIN ret.map :
                   ret.vecs[i][ret.map[t] + 1] = Get(streams[i], t)

\* C28 witness: the reduction removed the column of one token and the other
\* token moved to position 0.
C28_Witness ==
    /\ call.op = "gen.features" /\ ~call.opts.norm /\ err = "none"
    /\ DOMAIN ss_total = {"a", "b"}
    /\ DOMAIN ret.map = {"b"}
    /\ ret.map["b"] = 0
    /\ Len(streams) = 2

\* ------------------------------------------------------------------------
\* Distances

\* The two streams {a: 1, b: 1} and {a: 1, c: 1}.
TwoStreams == << [a |-> 1, b |-> 1], [a |-> 1, c |-> 1] >>

\* C23: the streams {a: 1, b: 1} and {a: 1, c: 1} give vectors of exactly 3
\* columns (from FeatureSet and from raw_features, whatever order the tokens
\* take), and the cosine distance of the two raw vectors is that of
\* [1, 1, 0] and [1, 0, 1], which is 1/2.
C23_TwoStreamsCosine ==
    (streams = TwoStreams /\ fpc = "built") =>
        /\ Len(feature_vecs) = 2
        /\ Len(feature_vecs[1]) = 3 /\ Len(feature_vecs[2]) = 3
        /\ Cosine(Floats(<<1, 1, 0>>), Floats(<<1, 0, 1>>)) = <<1, 2>>
        /\ (/\ metric # None
            /\ metric[1].op \in {"FeatureSet.dist", "cosine"}
            /\ metric[1].fn = "cosine"
            /\ metric[1].i1 # metric[1].i2) =>
               /\ metric[1].err = "none"
               /\ metric[1].val = Some(<<1, 2>>)

\* C23 witness: featureset.dist(0, 1, 'cosine') on the FeatureSet of the two
\* streams.
C23_Witness ==
    /\ streams = TwoStreams
    /\ api = "FeatureSet"
    /\ metric # None
    /\ metric[1].alg = [str |-> TRUE, name |-> "cosine"]
    /\ metric[1].i1 = 0 /\ metric[1].i2 = 1
    /\ metric[1].val = Some(<<1, 2>>)

\* C24: distance(s) returns a non-string as it is, resolves every name of
\* the supported set to a distance function without error, and fails with
\* RuntimeError for any other string.
C24_MetricSelection ==
    (metric # None /\ metric[1].op = "FeatureSet.dist") =>
        LET m == metric[1]
        IN  /\ ~m.alg.str => m.err = "none" /\ m.fn = m.alg.name
            /\ (m.alg.str /\ m.alg.name \in Supported) =>
                   m.err = "none" /\ m.fn = m.alg.name
            /\ (m.alg.str /\ m.alg.name \notin Supported) =>
                   m.err = "RuntimeError"

\* ------------------------------------------------------------------------
\* Clones

\* C30: a clone is independent of its original: whatever delete_features and
\* normalize calls are made on a clone of a FeatureSet, the original's
\* feature_vecs, id_to_feature and feature_to_id stay as they were when the
\* clone was taken; whatever is appended to a clone of a StreamSet, the
\* original's streams, names and total stay as they were.
C30_CloneIsIndependent ==
    orig # None => orig[1].now = orig[1].then

\* C30 witness: normalize on a clone changed values of the clone's vectors.
C30_Witness ==
    /\ orig # None
    /\ api = "FeatureSet"
    /\ call.op = "normalize" /\ call.opts = <<"simple">>
    /\ Len(feature_vecs) = 2
    /\ feature_vecs # orig[1].now.feature_vecs

====
